---- MODULE Spec2Model ----
(***************************************************************************)
(* Groundwater salinisation dashboard (src/app.py): the scoring pipeline   *)
(* of the Streamlit script as a state machine.                             *)
(*                                                                         *)
(* Numbers.  A float cell is a pair <<n, d>>: the rational n/d in lowest   *)
(* terms with d > 0, or one of the three IEEE specials the script's float  *)
(* arithmetic produces: <<1,0>> = +inf, <<-1,0>> = -inf, <<0,0>> = NaN     *)
(* (also what pandas reads an empty cell as).  Arithmetic is exact; the    *)
(* input values below were chosen so that the float results of the script  *)
(* compare with 0.85 and 1.15 as the exact values do.                      *)
(***************************************************************************)
EXTENDS Integers, Sequences, FiniteSets, TLC

VARIABLES pc, uploaded_file, df, missing, overall_rec, csv, args, ret

vars == <<pc, uploaded_file, df, missing, overall_rec, csv, args, ret>>

----------------------------------------------------------------------------
(* Float values and their arithmetic                                       *)

NaN == <<0, 0>>
PosInf == <<1, 0>>
NegInf == <<-1, 0>>

Abs(n) == IF n < 0 THEN -n ELSE n

Sign(n) == IF n > 0 THEN 1 ELSE IF n < 0 THEN -1 ELSE 0

RECURSIVE Gcd(_, _)
Gcd(a, b) == IF b = 0 THEN a ELSE Gcd(b, a % b)

\* The float n/d for integers n, d: lowest terms, positive denominator;
\* x/0 is +inf or -inf and 0/0 is NaN.
R(n, d) ==
    IF d = 0 THEN <<Sign(n), 0>>
    ELSE LET g == Gcd(Abs(n), Abs(d))
             s == Sign(d)
         IN  <<(s * n) \div g, (s * d) \div g>>

IsNaN(x) == x = NaN

IsInf(x) == x = PosInf \/ x = NegInf

IsFinite(x) == x[2] # 0

\* x < y on floats: every comparison with NaN is false.
Lt(x, y) ==
    /\ ~IsNaN(x)
    /\ ~IsNaN(y)
    /\ IF x[2] = 0 /\ y[2] = 0 THEN x[1] < y[1]
       ELSE x[1] * y[2] < y[1] * x[2]

Gt(x, y) == Lt(y, x)

Le(x, y) == ~IsNaN(x) /\ ~IsNaN(y) /\ ~Lt(y, x)

Ge(x, y) == Le(y, x)

\* x / y on floats.
FDiv(x, y) ==
    IF IsNaN(x) \/ IsNaN(y) THEN NaN
    ELSE IF IsInf(x) /\ IsInf(y) THEN NaN
    ELSE IF IsInf(x) THEN <<x[1] * (IF y[1] < 0 THEN -1 ELSE 1), 0>>
    ELSE IF IsInf(y) THEN R(0, 1)
    ELSE R(x[1] * y[2], x[2] * y[1])

\* x * y on floats.
FMul(x, y) ==
    IF IsNaN(x) \/ IsNaN(y) THEN NaN
    ELSE IF IsInf(x) \/ IsInf(y) THEN <<Sign(x[1]) * Sign(y[1]), 0>>
    ELSE R(x[1] * y[1], x[2] * y[2])

\* x + y on floats.
FAdd(x, y) ==
    IF IsNaN(x) \/ IsNaN(y) THEN NaN
    ELSE IF IsInf(x) /\ IsInf(y) THEN (IF x = y THEN x ELSE NaN)
    ELSE IF IsInf(x) THEN x
    ELSE IF IsInf(y) THEN y
    ELSE R(x[1] * y[2] + y[1] * x[2], x[2] * y[2])

----------------------------------------------------------------------------
(* Helper functions (src/app.py lines 14-80)                               *)

Saline == "Saline"
SlightlySaline == "Slightly Saline"
Fresh == "Fresh"

\* mgL / mw * charge
mgL_to_meq(mgL, mw, charge) == FMul(FDiv(mgL, mw), charge)

\* Variant: Slightly Saline from a score of 25.
classify_slight_from_25(ec, cl) ==
    LET ecScore == IF Gt(ec, R(1500, 1)) THEN 50
                   ELSE IF Gt(ec, R(750, 1)) THEN 25 ELSE 0
        clScore == IF Gt(cl, R(250, 1)) THEN 50
                   ELSE IF Gt(cl, R(100, 1)) THEN 25 ELSE 0
        score == ecScore + clScore
    IN  IF score >= 75 THEN [status |-> Saline, score |-> score]
        ELSE IF score >= 25 THEN [status |-> SlightlySaline, score |-> score]
        ELSE [status |-> Fresh, score |-> score]

\* Variant: the top EC tier starts at 1500 itself.
classify_ge_ec(ec, cl) ==
    LET ecScore == IF Ge(ec, R(1500, 1)) THEN 50
                   ELSE IF Gt(ec, R(750, 1)) THEN 25 ELSE 0
        clScore == IF Gt(cl, R(250, 1)) THEN 50
                   ELSE IF Gt(cl, R(100, 1)) THEN 25 ELSE 0
        score == ecScore + clScore
    IN  IF score >= 75 THEN [status |-> Saline, score |-> score]
        ELSE IF score >= 40 THEN [status |-> SlightlySaline, score |-> score]
        ELSE [status |-> Fresh, score |-> score]

classify_salinisation(ec, cl) ==
    LET ecScore == IF Gt(ec, R(1500, 1)) THEN 50
                   ELSE IF Gt(ec, R(750, 1)) THEN 25 ELSE 0
        clScore == IF Gt(cl, R(250, 1)) THEN 50
                   ELSE IF Gt(cl, R(100, 1)) THEN 25 ELSE 0
        score == ecScore + clScore
    IN  IF score >= 75 THEN [status |-> Saline, score |-> score]
        ELSE IF score >= 40 THEN [status |-> SlightlySaline, score |-> score]
        ELSE [status |-> Fresh, score |-> score]

\* The recommendation texts, each named by its leading idea.
FreshAquifer == "fresh aquifer"
EarlyStage == "early-stage salinisation"
SeawaterIntrusion == "seawater intrusion"
EvaporationIonExchange == "evaporation and ion exchange"
ChlorideDominated == "chloride-dominated salinity"
InsufficientData == "Insufficient data to derive an overall recommendation."

\* A data frame: its column labels and its rows, each row a function from
\* the column labels to cells.
\* A function on 1..n as a list.
List(f) == f \o <<>>

Column(frame, name) ==
    List([i \in 1..Len(frame.rows) |-> frame.rows[i][name]])

\* df[name] = values
SetColumn(frame, name, values) ==
    [columns |-> frame.columns \cup {name},
     rows |-> List([i \in 1..Len(frame.rows) |->
                       (name :> values[i]) @@ frame.rows[i]])]

\* Series.value_counts(normalize=True).get(status, 0)
value_counts_get(series, status) ==
    LET count == Cardinality({i \in 1..Len(series) : series[i] = status})
    IN  IF count = 0 THEN R(0, 1) ELSE R(count, Len(series))

IsDefined(x) == ~IsNaN(x)

\* The k-th smallest of a sequence of floats without NaN.
Kth(vals, k) ==
    CHOOSE v \in {vals[i] : i \in 1..Len(vals)} :
        /\ Cardinality({i \in 1..Len(vals) : Lt(vals[i], v)}) < k
        /\ Cardinality({i \in 1..Len(vals) : Le(vals[i], v)}) >= k

\* Series.median(): NaN cells are skipped, infinite ones are not; the mean
\* of the two middle values for an even count; NaN when nothing is left.
median(series) ==
    LET vals == SelectSeq(series, IsDefined)
        n == Len(vals)
    IN  IF n = 0 THEN NaN
        ELSE IF n % 2 = 1 THEN Kth(vals, (n + 1) \div 2)
        ELSE FDiv(FAdd(Kth(vals, n \div 2), Kth(vals, n \div 2 + 1)), R(2, 1))

\* Series.max(): NaN cells are skipped.
max(series) ==
    LET vals == SelectSeq(series, IsDefined)
    IN  IF Len(vals) = 0 THEN NaN ELSE Kth(vals, Len(vals))

\* Variant: the third branch tests saline_frac > 0.4.
recommendation_above_04(frame) ==
    LET status_col == Column(frame, "Salinity_Status")
        saline_frac == value_counts_get(status_col, Saline)
        slight_frac == value_counts_get(status_col, SlightlySaline)
        median_na_cl == median(Column(frame, "Na_Cl"))
    IN  IF Lt(saline_frac, R(2, 10)) /\ Lt(slight_frac, R(3, 10))
          THEN FreshAquifer
        ELSE IF Lt(saline_frac, R(4, 10)) THEN EarlyStage
        ELSE IF Gt(saline_frac, R(4, 10)) THEN
          IF Le(R(85, 100), median_na_cl) /\ Le(median_na_cl, R(115, 100))
            THEN SeawaterIntrusion
          ELSE IF Gt(median_na_cl, R(115, 100)) THEN EvaporationIonExchange
          ELSE ChlorideDominated
        ELSE InsufficientData

\* Variant: the seawater band is the open interval 0.85 < median < 1.15.
recommendation_open_band(frame) ==
    LET status_col == Column(frame, "Salinity_Status")
        saline_frac == value_counts_get(status_col, Saline)
        slight_frac == value_counts_get(status_col, SlightlySaline)
        median_na_cl == median(Column(frame, "Na_Cl"))
    IN  IF Lt(saline_frac, R(2, 10)) /\ Lt(slight_frac, R(3, 10))
          THEN FreshAquifer
        ELSE IF Lt(saline_frac, R(4, 10)) THEN EarlyStage
        ELSE IF Ge(saline_frac, R(4, 10)) THEN
          IF Lt(R(85, 100), median_na_cl) /\ Lt(median_na_cl, R(115, 100))
            THEN SeawaterIntrusion
          ELSE IF Gt(median_na_cl, R(115, 100)) THEN EvaporationIonExchange
          ELSE ChlorideDominated
        ELSE InsufficientData

generate_overall_recommendation(frame) ==
    LET status_col == Column(frame, "Salinity_Status")
        saline_frac == value_counts_get(status_col, Saline)
        slight_frac == value_counts_get(status_col, SlightlySaline)
        median_na_cl == median(Column(frame, "Na_Cl"))
        median_cl_hco3 == median(Column(frame, "Cl_HCO3"))
        max_ec == max(Column(frame, "EC"))
    IN  IF Lt(saline_frac, R(2, 10)) /\ Lt(slight_frac, R(3, 10))
          THEN FreshAquifer
        ELSE IF Lt(saline_frac, R(4, 10)) THEN EarlyStage
        ELSE IF Ge(saline_frac, R(4, 10)) THEN
          IF Le(R(85, 100), median_na_cl) /\ Le(median_na_cl, R(115, 100))
            THEN SeawaterIntrusion
          ELSE IF Gt(median_na_cl, R(115, 100)) THEN EvaporationIonExchange
          ELSE ChlorideDominated
        ELSE InsufficientData

----------------------------------------------------------------------------
(* The script body (src/app.py lines 85-180), one run of it                *)

required_cols == <<"Na", "Ca", "Mg", "Cl", "HCO3", "EC">>

RequiredSet == {required_cols[i] : i \in 1..Len(required_cols)}

IsAbsent(frame, c) == c \notin frame.columns

\* Variant: only the first absent column is reported.
MissingColumns_first(frame) ==
    LET absent(c) == IsAbsent(frame, c)
        all == SelectSeq(required_cols, absent)
    IN  IF all = <<>> THEN <<>> ELSE <<Head(all)>>

\* missing = [c for c in required_cols if c not in df.columns]
MissingColumns(frame) ==
    LET absent(c) == IsAbsent(frame, c)
    IN  SelectSeq(required_cols, absent)

\* Lines 106-110: the five equivalence columns.
ConvertFrame(frame) ==
    LET conv(f, to, from, mw, charge) ==
            SetColumn(f, to, [i \in 1..Len(f.rows) |->
                                mgL_to_meq(f.rows[i][from], mw, R(charge, 1))])
        f1 == conv(frame, "Na_meq", "Na", R(23, 1), 1)
        f2 == conv(f1, "Ca_meq", "Ca", R(40, 1), 2)
        f3 == conv(f2, "Mg_meq", "Mg", R(243, 10), 2)
        f4 == conv(f3, "Cl_meq", "Cl", R(3545, 100), 1)
    IN  conv(f4, "HCO3_meq", "HCO3", R(61, 1), 1)

\* Lines 115-116: the two ratio columns.
RatioFrame(frame) ==
    LET f1 == SetColumn(frame, "Na_Cl",
                 [i \in 1..Len(frame.rows) |->
                     FDiv(frame.rows[i]["Na_meq"], frame.rows[i]["Cl_meq"])])
    IN  SetColumn(f1, "Cl_HCO3",
                 [i \in 1..Len(f1.rows) |->
                     FDiv(f1.rows[i]["Cl_meq"], f1.rows[i]["HCO3_meq"])])

\* Lines 121-126: classify every row, then the status and confidence columns.
ClassifyFrame(frame) ==
    LET results == [i \in 1..Len(frame.rows) |->
                       classify_salinisation(frame.rows[i]["EC"],
                                             frame.rows[i]["Cl"])]
        f1 == SetColumn(frame, "Salinity_Status",
                 [i \in 1..Len(frame.rows) |-> results[i].status])
    IN  SetColumn(f1, "Confidence_%",
                 [i \in 1..Len(frame.rows) |-> results[i].score])

\* One cell of DataFrame.to_csv: a float is written as its decimal text
\* ("num" stands for the digits of val), an infinite one as inf or -inf, a
\* NaN as the empty field; a status is written as it is.
CsvCell(c, v) ==
    IF c = "Salinity_Status" THEN [text |-> v, val |-> NaN]
    ELSE IF c = "Confidence_%" THEN [text |-> "num", val |-> R(v, 1)]
    ELSE IF IsNaN(v) THEN [text |-> "", val |-> NaN]
    ELSE IF v = PosInf THEN [text |-> "inf", val |-> v]
    ELSE IF v = NegInf THEN [text |-> "-inf", val |-> v]
    ELSE [text |-> "num", val |-> v]

\* Variant: out = df.dropna() before writing.
to_csv_dropna(frame) ==
    LET complete(r) == \A c \in DOMAIN r :
                          c \in {"Salinity_Status", "Confidence_%"} \/ ~IsNaN(r[c])
        kept == SelectSeq(frame.rows, complete)
    IN  [header |-> frame.columns,
         lines |-> List([i \in 1..Len(kept) |->
                      [c \in DOMAIN kept[i] |-> CsvCell(c, kept[i][c])]])]

\* out.to_csv(index=False): the header and one line per row of the frame.
to_csv(frame) ==
    [header |-> frame.columns,
     lines |-> List([i \in 1..Len(frame.rows) |->
                  [c \in DOMAIN frame.rows[i] |-> CsvCell(c, frame.rows[i][c])]])]

NoFile == [given |-> FALSE, columns |-> {}, rows |-> <<>>]

NoFrame == [columns |-> {}, rows |-> <<>>]

NoCsv == [header |-> {}, lines |-> <<>>]

NoArgs == [ec |-> NaN, cl |-> NaN]

NoRet == [status |-> "", score |-> -1]

\* Largest number of samples in an uploaded table.
MaxSamples == 2

\* The cells an uploaded table may hold in each column (mg/L, uS/cm): an
\* empty Na cell, a negative Na, zero and positive concentrations.
Cells(c) ==
    CASE c = "Na" -> {NaN, R(-23, 1), R(0, 1), R(230, 1)}
      [] c = "Ca" -> {R(40, 1)}
      [] c = "Mg" -> {R(243, 10)}
      [] c = "Cl" -> {R(0, 1), R(3545, 10)}
      [] c = "HCO3" -> {R(0, 1), R(61, 1)}
      [] c = "EC" -> {R(750, 1), R(1501, 1)}

FullSamples ==
    [Na : Cells("Na"), Ca : Cells("Ca"), Mg : Cells("Mg"),
     Cl : Cells("Cl"), HCO3 : Cells("HCO3"), EC : Cells("EC")]

SamplesOver(cols) == {[c \in cols |-> s[c]] : s \in FullSamples}

\* uploaded_file: nothing, or a table with some of the required columns
\* and one to MaxSamples rows.
Init ==
    /\ pc = "start"
    /\ \/ uploaded_file = NoFile
       \/ \E cols \in SUBSET RequiredSet, n \in 1..MaxSamples :
            \E rows \in [1..n -> SamplesOver(cols)] :
              uploaded_file =
                  [given |-> TRUE, columns |-> cols, rows |-> rows]
    /\ df = NoFrame
    /\ missing = <<>>
    /\ overall_rec = ""
    /\ csv = NoCsv
    /\ args = NoArgs
    /\ ret = NoRet

\* Lines 178-180: nothing uploaded.
AwaitUpload ==
    /\ pc = "start"
    /\ ~uploaded_file.given
    /\ pc' = "idle"
    /\ UNCHANGED <<uploaded_file, df, missing, overall_rec, csv, args, ret>>

\* Lines 87-94: the file is parsed into df.
ReadUpload ==
    /\ pc = "start"
    /\ uploaded_file.given
    /\ df' = [columns |-> uploaded_file.columns, rows |-> uploaded_file.rows]
    /\ pc' = "check"
    /\ UNCHANGED <<uploaded_file, missing, overall_rec, csv, args, ret>>

\* Lines 96-101: st.error and st.stop when a required column is absent.
CheckColumns ==
    /\ pc = "check"
    /\ missing' = MissingColumns(df)
    /\ pc' = IF missing' # <<>> THEN "stopped" ELSE "convert"
    /\ UNCHANGED <<uploaded_file, df, overall_rec, csv, args, ret>>

ConvertToMeq ==
    /\ pc = "convert"
    /\ df' = ConvertFrame(df)
    /\ pc' = "ratios"
    /\ UNCHANGED <<uploaded_file, missing, overall_rec, csv, args, ret>>

ComputeRatios ==
    /\ pc = "ratios"
    /\ df' = RatioFrame(df)
    /\ pc' = "classify"
    /\ UNCHANGED <<uploaded_file, missing, overall_rec, csv, args, ret>>

Classify ==
    /\ pc = "classify"
    /\ df' = ClassifyFrame(df)
    /\ pc' = "recommend"
    /\ UNCHANGED <<uploaded_file, missing, overall_rec, csv, args, ret>>

\* Lines 159-161.
Recommend ==
    /\ pc = "recommend"
    /\ overall_rec' = generate_overall_recommendation(df)
    /\ pc' = "export"
    /\ UNCHANGED <<uploaded_file, df, missing, csv, args, ret>>

\* Lines 166-176.
Export ==
    /\ pc = "export"
    /\ csv' = to_csv(df)
    /\ pc' = "done"
    /\ UNCHANGED <<uploaded_file, df, missing, overall_rec, args, ret>>

Next ==
    \/ AwaitUpload
    \/ ReadUpload
    \/ CheckColumns
    \/ ConvertToMeq
    \/ ComputeRatios
    \/ Classify
    \/ Recommend
    \/ Export

Spec == Init /\ [][Next]_vars

----------------------------------------------------------------------------
(* The population interpreter on larger surveys: the script stands at line *)
(* 160 with the frame it has built from a survey of saline, slightly       *)
(* saline and fresh samples, and is run again on another survey of the     *)
(* same size.                                                              *)

\* Largest number of samples in a survey.
MaxRows == 10

\* Largest number of samples in a survey that is run again.
MaxResurvey == 6

\* Na (mg/L) of the saline samples, whose Cl is 354.5 mg/L (10 meq/L): an
\* empty cell, and Na/Cl = 0.8, 0.85, 1.0, 1.15, 1.2.
SalineNa == {NaN, R(184, 1), R(391, 2), R(230, 1), R(529, 2), R(276, 1)}

\* Na and Cl (mg/L) of the other samples: none of either (Na/Cl = 0/0), or
\* Cl = 35.45 mg/L (1 meq/L) with Na/Cl = 1.2.
OtherNaCl ==
    {[na |-> R(0, 1), cl |-> R(0, 1)],
     [na |-> R(138, 5), cl |-> R(3545, 100)]}

Sample(na, cl, ec) ==
    [Na |-> na, Ca |-> R(40, 1), Mg |-> R(243, 10), Cl |-> cl,
     HCO3 |-> R(61, 1), EC |-> ec]

\* nS samples with EC > 1500 and Cl > 250, nL with EC > 1500 and Cl < 100,
\* nF with EC < 750 and Cl < 100.
Survey(nS, nL, nF, na, o) ==
    [given |-> TRUE,
     columns |-> RequiredSet,
     rows |-> List([i \in 1..(nS + nL + nF) |->
                 IF i <= nS THEN Sample(na, R(3545, 10), R(1501, 1))
                 ELSE IF i <= nS + nL THEN Sample(o.na, o.cl, R(1501, 1))
                 ELSE Sample(o.na, o.cl, R(700, 1))])]

\* The frame at line 160: lines 87-126 applied to the uploaded table.
Classified(file) ==
    ClassifyFrame(RatioFrame(ConvertFrame(
        [columns |-> file.columns, rows |-> file.rows])))

InitInterp ==
    /\ pc = "recommend"
    /\ \E n \in 1..MaxRows, na \in SalineNa, o \in OtherNaCl :
         \E nS \in 0..n :
           \E nL \in 0..(n - nS) :
             /\ uploaded_file = Survey(nS, nL, n - nS - nL, na, o)
             /\ args = [na |-> na, o |-> o]
    /\ df = Classified(uploaded_file)
    /\ missing = <<>>
    /\ overall_rec = ""
    /\ csv = NoCsv
    /\ ret = NoRet

\* The script run again on a survey of the same size and the same kinds of
\* sample, with other numbers of each kind.
Resurvey ==
    /\ pc = "export"
    /\ Len(df.rows) <= MaxResurvey
    /\ \E nS \in 0..Len(df.rows) :
         \E nL \in 0..(Len(df.rows) - nS) :
           uploaded_file' =
               Survey(nS, nL, Len(df.rows) - nS - nL, args.na, args.o)
    /\ uploaded_file' # uploaded_file
    /\ df' = Classified(uploaded_file')
    /\ overall_rec' = generate_overall_recommendation(df')
    /\ pc' = "export_rerun"
    /\ UNCHANGED <<missing, csv, args, ret>>

NextInterp ==
    \/ Recommend
    \/ Resurvey

SpecInterp == InitInterp /\ [][NextInterp]_vars

----------------------------------------------------------------------------
(* The classifier on its own: classify_salinisation applied to one pair of *)
(* readings drawn around its thresholds.                                   *)

\* Half-width, in half units, of the window of readings drawn around each
\* threshold.
Delta == 1

Around(ts) == {R(2 * t + o, 2) : t \in ts, o \in -Delta..Delta}

ECReadings == Around({750, 1500}) \cup {R(0, 1), R(-1, 1), NaN}

ClReadings == Around({100, 250}) \cup {R(0, 1), R(-1, 1), NaN}

InitClassify ==
    /\ pc = "classify_call"
    /\ args \in [ec : ECReadings, cl : ClReadings]
    /\ ret = NoRet
    /\ uploaded_file = NoFile
    /\ df = NoFrame
    /\ missing = <<>>
    /\ overall_rec = ""
    /\ csv = NoCsv

CallClassify ==
    /\ pc = "classify_call"
    /\ ret' = classify_salinisation(args.ec, args.cl)
    /\ pc' = "classify_return"
    /\ UNCHANGED <<uploaded_file, df, missing, overall_rec, csv, args>>

NextClassify == CallClassify

SpecClassify == InitClassify /\ [][NextClassify]_vars

----------------------------------------------------------------------------
(* Properties                                                              *)

Zero == R(0, 1)

\* The fraction of the frame's samples with the given status.
Fraction(frame, status) ==
    R(Cardinality({i \in 1..Len(frame.rows) :
                      frame.rows[i]["Salinity_Status"] = status}),
      Len(frame.rows))

MedianNaCl(frame) == median(Column(frame, "Na_Cl"))

\* The median of a ratio over the samples whose ratio is a finite number.
DefinedMedian(frame, ratio) ==
    median(SelectSeq(Column(frame, ratio), IsFinite))

HasNegative(sample) ==
    \E c \in DOMAIN sample : c \in RequiredSet /\ Lt(sample[c], Zero)

\* No cell of the uploaded table is negative.
NoNegative ==
    \A i \in 1..Len(uploaded_file.rows) : ~HasNegative(uploaded_file.rows[i])

Recommended == pc \in {"export", "done", "export_rerun"}

ClassifyReturned == pc = "classify_return"

ECContribution(ec) ==
    IF Gt(ec, R(1500, 1)) THEN 50
    ELSE IF Gt(ec, R(750, 1)) /\ Le(ec, R(1500, 1)) THEN 25
    ELSE 0

ClContribution(cl) ==
    IF Gt(cl, R(250, 1)) THEN 50
    ELSE IF Gt(cl, R(100, 1)) /\ Le(cl, R(250, 1)) THEN 25
    ELSE 0

StatusOf(score) ==
    IF score >= 75 THEN Saline
    ELSE IF 40 <= score /\ score < 75 THEN SlightlySaline
    ELSE Fresh

\* C1: for every EC >= 0 and Cl >= 0 the returned score is the EC
\* contribution plus the Cl contribution, one of 0, 25, 50, 75, 100, and the
\* returned status is the one the score maps to.
C1_ScoreAndStatus ==
    (ClassifyReturned /\ Ge(args.ec, Zero) /\ Ge(args.cl, Zero)) =>
        /\ ret.score = ECContribution(args.ec) + ClContribution(args.cl)
        /\ ret.score \in {0, 25, 50, 75, 100}
        /\ ret.status = StatusOf(ret.score)

C1_Witness ==
    /\ ClassifyReturned
    /\ args.ec = R(3001, 2)
    /\ args.cl = R(501, 2)
    /\ ret = [status |-> Saline, score |-> 100]

\* C2 as stated: EC = 1500 and Cl = 0 give score 25 and the status Slightly
\* Saline.
C2_BoundaryIsSlightlySaline ==
    (ClassifyReturned /\ args.ec = R(1500, 1) /\ args.cl = Zero) =>
        ret = [status |-> SlightlySaline, score |-> 25]

\* C2, amended: EC = 1500 and Cl = 0 give score 25, which is below 40, and
\* so the status Fresh.
C2_BoundaryIsFresh ==
    (ClassifyReturned /\ args.ec = R(1500, 1) /\ args.cl = Zero) =>
        ret = [status |-> Fresh, score |-> 25]

C2_Witness ==
    /\ ClassifyReturned
    /\ args.ec = R(1500, 1)
    /\ args.cl = Zero
    /\ ret.score = 25

RatiosComputed == pc \in {"classify", "recommend", "export", "done"}

\* The ratio column over the samples whose denominator is not zero.
NonZeroDenominator(frame, ratio, denom) ==
    LET keep == {i \in 1..Len(frame.rows) : frame.rows[i][denom] # Zero}
        pick(i) == i \in keep
        idx == SelectSeq([i \in 1..Len(frame.rows) |-> i], pick)
    IN  List([k \in 1..Len(idx) |-> frame.rows[idx[k]][ratio]])

\* C3: a ratio with a zero denominator is never exported as an infinite or
\* NaN value, and its sample takes no part in the median of that ratio
\* (stated for tables without negative cells).
C3_ZeroDenominatorUndefined ==
  NoNegative =>
    /\ pc = "done" =>
         \A i \in 1..Len(csv.lines) : \A c \in {"Na_Cl", "Cl_HCO3"} :
             csv.lines[i][c].text \notin {"inf", "-inf", "nan"}
    /\ RatiosComputed =>
         /\ median(Column(df, "Na_Cl")) =
                median(NonZeroDenominator(df, "Na_Cl", "Cl_meq"))
         /\ median(Column(df, "Cl_HCO3")) =
                median(NonZeroDenominator(df, "Cl_HCO3", "HCO3_meq"))

Lacking == RequiredSet \ uploaded_file.columns

\* C4: for an uploaded table that lacks required columns, exactly those
\* columns are reported, and no conversion, ratio, classification,
\* recommendation or export is made.
C4_MissingColumnsHalt ==
    (uploaded_file.given /\ Lacking # {}) =>
        /\ pc \in {"start", "check", "stopped"}
        /\ df.columns \subseteq uploaded_file.columns
        /\ df.rows \in {<<>>, uploaded_file.rows}
        /\ overall_rec = ""
        /\ csv = NoCsv
        /\ pc = "stopped" =>
             /\ {missing[i] : i \in 1..Len(missing)} = Lacking
             /\ Len(missing) = Cardinality(Lacking)

C4_Witness ==
    /\ pc = "stopped"
    /\ missing = <<"HCO3">>
    /\ df.rows = uploaded_file.rows

\* Severity of a recommendation: fresh aquifer, then early-stage, then the
\* three given when saline_frac >= 0.4; the fallback text is none of them.
Severity(text) ==
    CASE text = FreshAquifer -> 0
      [] text = EarlyStage -> 1
      [] text \in {SeawaterIntrusion, EvaporationIonExchange,
                   ChlorideDominated} -> 2
      [] OTHER -> -1

\* The script run on a second survey of the same size, the same median
\* Na/Cl and a larger fraction of Saline samples.
MoreSaline ==
    /\ pc = "export"
    /\ pc' = "export_rerun"
    /\ Len(df'.rows) = Len(df.rows)
    /\ MedianNaCl(df') = MedianNaCl(df)
    /\ Gt(Fraction(df', Saline), Fraction(df, Saline))

\* C5 as stated: the second survey's recommendation is never less severe
\* than the first's.
C5_MoreSalineNeverLessSevere ==
    [][MoreSaline => Severity(overall_rec') >= Severity(overall_rec)]_vars

\* C5, amended: the same, when the fraction of Slightly Saline samples of
\* the second survey is not smaller than that of the first.
C5_MoreSalineNoFewerSlight ==
    [][(MoreSaline /\ Ge(Fraction(df', SlightlySaline),
                         Fraction(df, SlightlySaline)))
          => Severity(overall_rec') >= Severity(overall_rec)]_vars

C5_Witness ==
    /\ pc = "export_rerun"
    /\ Len(df.rows) = 5
    /\ Fraction(df, Saline) = R(3, 5)
    /\ Fraction(df, SlightlySaline) = R(2, 5)
    /\ Severity(overall_rec) = 2

\* C6: the text is chosen by first match: fresh aquifer, else early-stage,
\* else by the median Na/Cl; ten samples, five Saline and five Fresh, with
\* median 1.0 give the seawater-intrusion text.
C6_FirstMatchPriority ==
    Recommended =>
        LET s == Fraction(df, Saline)
            l == Fraction(df, SlightlySaline)
            m == MedianNaCl(df)
            fresh == Lt(s, R(1, 5)) /\ Lt(l, R(3, 10))
        IN  /\ fresh => overall_rec = FreshAquifer
            /\ (~fresh /\ Lt(s, R(2, 5))) => overall_rec = EarlyStage
            /\ (Ge(s, R(2, 5)) /\ Le(R(17, 20), m) /\ Le(m, R(23, 20)))
                   => overall_rec = SeawaterIntrusion
            /\ (Ge(s, R(2, 5)) /\ Gt(m, R(23, 20)))
                   => overall_rec = EvaporationIonExchange
            /\ (Len(df.rows) = 10 /\ s = R(1, 2) /\ l = Zero /\ m = R(1, 1))
                   => overall_rec = SeawaterIntrusion

C6_Witness ==
    /\ pc = "export"
    /\ Len(df.rows) = 10
    /\ Cardinality({i \in 1..10 : df.rows[i]["Salinity_Status"] = Saline}) = 5
    /\ Cardinality({i \in 1..10 : df.rows[i]["Salinity_Status"] = Fresh}) = 5
    /\ MedianNaCl(df) = R(1, 1)
    /\ overall_rec = SeawaterIntrusion

\* C7: the chloride-dominated text is given only when saline_frac >= 0.4
\* and the median of the defined Na/Cl ratios is a number below 0.85
\* (stated for tables without negative cells).
C7_ChlorideOnlyBelowBand ==
    (NoNegative /\ Recommended /\ overall_rec = ChlorideDominated) =>
        /\ Ge(Fraction(df, Saline), R(2, 5))
        /\ IsFinite(DefinedMedian(df, "Na_Cl"))
        /\ Lt(DefinedMedian(df, "Na_Cl"), R(17, 20))

\* C8: the recommendation is one of the five branch texts, never the
\* fallback, whatever the fractions and the median, an undefined one too.
C8_FallbackUnreachable ==
    Recommended =>
        /\ overall_rec # InsufficientData
        /\ overall_rec \in {FreshAquifer, EarlyStage, SeawaterIntrusion,
                            EvaporationIonExchange, ChlorideDominated}

C8_Witness ==
    /\ pc = "export"
    /\ IsNaN(MedianNaCl(df))
    /\ Ge(Fraction(df, Saline), R(2, 5))
    /\ overall_rec = ChlorideDominated

MeqColumns == {"Na_meq", "Ca_meq", "Mg_meq", "Cl_meq", "HCO3_meq"}

RatioColumns == {"Na_Cl", "Cl_HCO3"}

ClassColumns == {"Salinity_Status", "Confidence_%"}

\* C9: a sample with a negative concentration or EC gets no derived value,
\* status or confidence, and is not among the exported rows.
C9_NegativeRejected ==
    /\ \A i \in 1..Len(df.rows) :
         HasNegative(uploaded_file.rows[i]) =>
             (DOMAIN df.rows[i]) \cap
                 (MeqColumns \cup RatioColumns \cup ClassColumns) = {}
    /\ \A i \in 1..Len(csv.lines) : ~HasNegative(uploaded_file.rows[i])

Stage(p) ==
    CASE p = "start" -> 0
      [] p = "check" -> 1
      [] p = "convert" -> 2
      [] p = "ratios" -> 3
      [] p = "classify" -> 4
      [] p = "recommend" -> 5
      [] p = "export" -> 6
      [] p = "done" -> 7
      [] OTHER -> -1

\* The columns of df once the script stands at stage n.
ColumnsAt(n) ==
    RequiredSet \cup (IF n >= 3 THEN MeqColumns ELSE {})
                \cup (IF n >= 4 THEN RatioColumns ELSE {})
                \cup (IF n >= 5 THEN ClassColumns ELSE {})

C10_Step ==
    (uploaded_file.given /\ Lacking = {}) =>
        /\ Stage(pc') = Stage(pc) + 1
        /\ df'.columns = ColumnsAt(Stage(pc'))
        /\ Len(df'.rows) = Len(uploaded_file.rows)
        /\ \A i \in 1..Len(df'.rows) : DOMAIN df'.rows[i] = df'.columns
        /\ (Stage(pc') <= 5) => overall_rec' = ""
        /\ (Stage(pc') >= 6) =>
             /\ overall_rec' # ""
             /\ \A i \in 1..Len(df.rows) :
                  df.rows[i]["Salinity_Status"] \in
                      {Saline, SlightlySaline, Fresh}
        /\ (Stage(pc') <= 6) => csv' = NoCsv
        /\ (pc' = "done") =>
             /\ Len(csv'.lines) = Len(uploaded_file.rows)
             /\ \A i \in 1..Len(csv'.lines) :
                  /\ DOMAIN csv'.lines[i] = ColumnsAt(7)
                  /\ \A c \in RequiredSet :
                       csv'.lines[i][c].val = uploaded_file.rows[i][c]
                  /\ \A c \in MeqColumns \cup RatioColumns :
                       csv'.lines[i][c].val = df.rows[i][c]
                  /\ csv'.lines[i]["Salinity_Status"].text =
                         df.rows[i]["Salinity_Status"]
                  /\ csv'.lines[i]["Confidence_%"].val =
                         R(df.rows[i]["Confidence_%"], 1)

\* C10: on a table with every required column the stages run strictly
\* forward, one after the other and each once; the recommendation is made
\* when every sample has its status, and the export holds one row per
\* uploaded sample with the derived columns the earlier stages filled.
C10_StagesForward == [][C10_Step]_vars

C10_Witness ==
    /\ pc = "done"
    /\ Len(csv.lines) = 2
    /\ overall_rec # ""
    /\ \E i \in 1..2 : csv.lines[i]["Na_Cl"].text = ""

====
